---- MODULE Spec2Model ----
(***************************************************************************)
(* Model of examples/Preprocessor006/preprocess_dataset_006.py: the batch  *)
(* driver that shells out to the fileprepper CLI once per press file, and  *)
(* of the time-window resample operation it requests from that CLI.        *)
(*                                                                         *)
(* Non-ASCII path components of the script (Korean file and directory      *)
(* names) are written romanised, because TLA+ strings are ASCII; the       *)
(* romanisation is one-to-one on the literals used.                        *)
(***************************************************************************)
EXTENDS Integers, Sequences, FiniteSets, TLC

VARIABLES
    \* file system and environment seen by the script
    cliExists,        \* FILEPREPPER_CLI.exists()
    inputDirExists,   \* INPUT_DIR.exists()
    inputExists,      \* [press -> input_file.exists()]
    dirsCreated,      \* directories the script has called mkdir on
    written,          \* output paths written by the tool, in order
    opened,           \* paths the script opened for line counting, in order
    \* script state
    pc,               \* position of the script
    press_num,        \* loop variable of "for press_num in range(1, 5)"
    success,          \* locals of preprocess_press_data
    output,
    input_rows,
    output_rows,
    printed,          \* console output, in order
    exitStatus,       \* exit status of the script, -1 while running
    \* tool process
    inflight,         \* commands whose subprocess is running
    invocations,      \* commands passed to subprocess.run, in order
    toolResult,       \* [rc, stdout, stderr] of the finished subprocess, inside run_fileprepper
    \* resampling engine (the "window --type resample" operation)
    series,           \* input observations: sequence of timestamps (seconds)
    anchorRule,       \* "epoch" or "first"
    aggregated,       \* output rows
    phase             \* "input", "resampled"

driverVars == <<cliExists, inputDirExists, inputExists, dirsCreated, written,
                opened, pc, press_num, success, output, input_rows, output_rows,
                printed, exitStatus, inflight, invocations, toolResult>>
engineVars == <<series, anchorRule, aggregated, phase>>
vars == <<driverVars, engineVars>>

-----------------------------------------------------------------------------
(* Bounds of the model *)

\* largest line count of an input or output file
MaxRows == 1
\* largest exit status of the tool process
MaxExit == 2
\* largest timestamp of an observation, in minutes
MaxMinute == 12
\* largest number of observations in a series
MaxObs == 3

(* Program constants *)

\* range(1, 5): presses 1..4
NumPresses == 4
\* "--window", "5T": five minutes, in seconds of the Time_s[s] column
WindowSeconds == 300

Presses == 1..NumPresses

-----------------------------------------------------------------------------
(* Paths and the command line *)

FILEPREPPER_CLI == "D:/data/FilePrepper/src/FilePrepper.CLI/bin/Release/net9.0/fileprepper.exe"
INPUT_DIR == "D:/data/MLoop/ML-Resource/003-soseonggagong jawonchoejeokhwa/Dataset/data"
OUTPUT_DIR == "D:/data/MLoop/ML-Resource/003-soseonggagong jawonchoejeokhwa/mloop-project/processed-data"

Digit(d) == CASE d = 0 -> "0" [] d = 1 -> "1" [] d = 2 -> "2" [] d = 3 -> "3"
              [] d = 4 -> "4" [] d = 5 -> "5" [] d = 6 -> "6" [] d = 7 -> "7"
              [] d = 8 -> "8" [] d = 9 -> "9"

\* f"{press_num}": decimal formatting of a non-negative integer
RECURSIVE FormatInt(_)
FormatInt(n) == IF n < 10 THEN Digit(n) ELSE FormatInt(n \div 10) \o Digit(n % 10)

\* Path.__truediv__
JoinPath(dir, name) == dir \o "/" \o name

input_file(k) == JoinPath(INPUT_DIR, "peureseu " \o FormatInt(k) \o "ho-yuapmoteo jeollyudeiteo.csv")

output_file_shared(k) == JoinPath(OUTPUT_DIR, "press_5min.csv")
output_file(k) == JoinPath(OUTPUT_DIR, "press" \o FormatInt(k) \o "_5min.csv")

\* the argument list of lines 62-72, after [str(FILEPREPPER_CLI)]
Command(k) ==
    << "window",
       "-i", input_file(k),
       "-o", output_file(k),
       "--type", "resample",
       "--method", "mean",
       "--columns", "RMS[A]",
       "--time-column", "Time_s[s]",
       "--window", "5T",
       "--header" >>

-----------------------------------------------------------------------------
(* run_fileprepper *)

StdoutTexts == {"resampled"}
StderrTexts == {"ColumnNotFoundError", "MalformedInputError"}
ToolResults == [rc : 0..MaxExit, stdout : StdoutTexts, stderr : StderrTexts]

\* subprocess.run(..., check=False) would never raise CalledProcessError
run_fileprepper_unchecked(r) == <<TRUE, r.stdout>>
\* subprocess.run(..., check=True) raises CalledProcessError on a non-zero
\* exit status; the except clause turns it into (False, e.stderr)
run_fileprepper(r) == IF r.rc = 0 THEN <<TRUE, r.stdout>> ELSE <<FALSE, r.stderr>>

-----------------------------------------------------------------------------
(* Console output *)

Msg(kind, k) == [kind |-> kind, press |-> k]
ErrorMsg(k, text) == [kind |-> "error", press |-> k, text |-> text]
RowsMsg(k, in, out) ==
    [kind |-> "rows", press |-> k, input_rows |-> in, output_rows |-> out,
     \* reduction = ((input_rows - output_rows) * 100) / input_rows
     num |-> (in - out) * 100, den |-> in]

Range(s) == {s[i] : i \in 1..Len(s)}
Count(s, x) == Cardinality({i \in 1..Len(s) : s[i] = x})

-----------------------------------------------------------------------------
(* Initial state: the script is about to run its __main__ block *)

\* no subprocess result is in scope
NoResult == [rc |-> -1, stdout |-> "", stderr |-> ""]

DriverInit ==
    /\ cliExists \in BOOLEAN
    /\ inputDirExists \in BOOLEAN
    \* a file of a directory that does not exist does not exist
    /\ inputExists \in [Presses -> BOOLEAN]
    /\ \A k \in Presses : inputExists[k] => inputDirExists
    /\ dirsCreated = {}
    /\ written = <<>>
    /\ opened = <<>>
    /\ pc = "main"
    /\ press_num = 0
    /\ success = FALSE
    /\ output = ""
    /\ input_rows = 0
    /\ output_rows = 0
    /\ printed = <<>>
    /\ exitStatus = -1
    /\ inflight = {}
    /\ invocations = <<>>
    /\ toolResult = NoResult

EngineInit ==
    /\ series = <<>>
    /\ anchorRule \in {"epoch", "first"}
    /\ aggregated = <<>>
    /\ phase = "input"

-----------------------------------------------------------------------------
(* __main__ *)

StartupOk_NoDirCheck == cliExists
\* neither "if not ...exists()" guard of __main__ fires
StartupOk == cliExists /\ inputDirExists

\* if not FILEPREPPER_CLI.exists(): ...; sys.exit(1)
\* if not INPUT_DIR.exists(): ...; sys.exit(1)
MainExit ==
    /\ pc = "main"
    /\ ~StartupOk
    /\ printed' = Append(printed,
                         IF ~cliExists THEN Msg("cli_not_found", 0)
                                       ELSE Msg("input_dir_not_found", 0))
    /\ exitStatus' = 1
    /\ pc' = "exited"
    /\ UNCHANGED engineVars
    /\ UNCHANGED dirsCreated
    /\ UNCHANGED <<cliExists, inputDirExists, inputExists, written,
                   opened, press_num, success, output, input_rows, output_rows,
                   inflight, invocations, toolResult>>

\* preprocess_press_data(): OUTPUT_DIR.mkdir(parents=True, exist_ok=True)
\* and the opening banner
MainStart ==
    /\ pc = "main"
    /\ StartupOk
    /\ dirsCreated' = dirsCreated \cup {OUTPUT_DIR}
    /\ printed' = Append(printed, Msg("banner", 0))
    /\ pc' = "loop"
    /\ UNCHANGED engineVars
    /\ UNCHANGED <<cliExists, inputDirExists, inputExists, written,
                   opened, press_num, success, output, input_rows, output_rows,
                   exitStatus, inflight, invocations, toolResult>>

-----------------------------------------------------------------------------
(* preprocess_press_data: the loop over the presses *)

\* for press_num in range(1, 5): next element, then the three "Processing"
\* lines
LoopNext ==
    /\ pc = "loop"
    /\ press_num < NumPresses
    /\ press_num' = press_num + 1
    /\ printed' = Append(printed, Msg("processing", press_num + 1))
    /\ pc' = "exists"
    /\ UNCHANGED engineVars
    /\ UNCHANGED dirsCreated
    /\ UNCHANGED <<cliExists, inputDirExists, inputExists, written,
                   opened, success, output, input_rows, output_rows,
                   exitStatus, inflight, invocations, toolResult>>

\* range exhausted: the closing banner, and the script ends
LoopExit ==
    /\ pc = "loop"
    /\ press_num >= NumPresses
    /\ printed' = Append(printed, Msg("complete", 0))
    /\ exitStatus' = 0
    /\ pc' = "done"
    /\ UNCHANGED engineVars
    /\ UNCHANGED dirsCreated
    /\ UNCHANGED <<cliExists, inputDirExists, inputExists, written,
                   opened, press_num, success, output, input_rows, output_rows,
                   inflight, invocations, toolResult>>

\* if not input_file.exists(): print; continue
SkipMissing ==
    /\ pc = "exists"
    /\ ~inputExists[press_num]
    /\ printed' = Append(printed, Msg("skipping", press_num))
    /\ pc' = "loop"
    /\ UNCHANGED engineVars
    /\ UNCHANGED dirsCreated
    /\ UNCHANGED <<cliExists, inputDirExists, inputExists, written,
                   opened, press_num, success, output, input_rows, output_rows,
                   exitStatus, inflight, invocations, toolResult>>

\* subprocess.Popen-like start: the script goes on without waiting
CallTool_NoWait ==
    /\ pc = "exists"
    /\ inputExists[press_num]
    /\ inflight' = inflight \cup {Command(press_num)}
    /\ invocations' = Append(invocations, Command(press_num))
    /\ success' = TRUE
    /\ output' = ""
    /\ pc' = "branch"
    /\ UNCHANGED engineVars
    /\ UNCHANGED dirsCreated
    /\ UNCHANGED <<cliExists, inputDirExists, inputExists, written,
                   opened, press_num, input_rows, output_rows,
                   printed, exitStatus, toolResult>>

\* run_fileprepper([...]): subprocess.run starts the tool and blocks
CallTool ==
    /\ pc = "exists"
    /\ inputExists[press_num]
    /\ inflight' = inflight \cup {Command(press_num)}
    /\ invocations' = Append(invocations, Command(press_num))
    /\ pc' = "running"
    /\ UNCHANGED engineVars
    /\ UNCHANGED dirsCreated
    /\ UNCHANGED <<cliExists, inputDirExists, inputExists, written,
                   opened, press_num, success, output, input_rows, output_rows,
                   printed, exitStatus, toolResult>>

\* the tool process ends with some exit status and captured texts; a tool
\* that exits with status zero has written the file named by -o
ToolExit ==
    /\ pc = "running"
    /\ \E r \in ToolResults :
        /\ toolResult' = r
        /\ written' = IF r.rc = 0 THEN Append(written, output_file(press_num))
                                  ELSE written
    /\ inflight' = inflight \ {Command(press_num)}
    /\ pc' = "returning"
    /\ UNCHANGED engineVars
    /\ UNCHANGED dirsCreated
    /\ UNCHANGED <<cliExists, inputDirExists, inputExists,
                   opened, press_num, success, output, input_rows, output_rows,
                   printed, exitStatus, invocations>>

\* run_fileprepper returns (line 31 or line 33) and line 62 binds
\* success, output; the CompletedProcess / CalledProcessError goes out of scope
Return ==
    /\ pc = "returning"
    /\ success' = run_fileprepper(toolResult)[1]
    /\ output' = run_fileprepper(toolResult)[2]
    /\ toolResult' = NoResult
    /\ pc' = "branch"
    /\ UNCHANGED engineVars
    /\ UNCHANGED dirsCreated
    /\ UNCHANGED <<cliExists, inputDirExists, inputExists, written,
                   opened, press_num, input_rows, output_rows,
                   printed, exitStatus, inflight, invocations>>

\* the row counting placed after the if/else instead of inside the if
BranchSuccess_Always ==
    /\ pc = "branch"
    /\ printed' = Append(printed, Msg("processed", press_num))
    /\ pc' = "count_input"
    /\ UNCHANGED engineVars
    /\ UNCHANGED dirsCreated
    /\ UNCHANGED <<cliExists, inputDirExists, inputExists, written,
                   opened, press_num, success, output, input_rows, output_rows,
                   exitStatus, inflight, invocations, toolResult>>

\* if success: print("Successfully processed")
BranchSuccess ==
    /\ pc = "branch"
    /\ success
    /\ printed' = Append(printed, Msg("processed", press_num))
    /\ pc' = "count_input"
    /\ UNCHANGED engineVars
    /\ UNCHANGED dirsCreated
    /\ UNCHANGED <<cliExists, inputDirExists, inputExists, written,
                   opened, press_num, success, output, input_rows, output_rows,
                   exitStatus, inflight, invocations, toolResult>>

\* else: print("Processing failed"); print(f"Error: {output}")
BranchFailure ==
    /\ pc = "branch"
    /\ ~success
    /\ printed' = printed \o <<Msg("failed", press_num), ErrorMsg(press_num, output)>>
    /\ pc' = "end_iteration"
    /\ UNCHANGED engineVars
    /\ UNCHANGED dirsCreated
    /\ UNCHANGED <<cliExists, inputDirExists, inputExists, written,
                   opened, press_num, success, output, input_rows, output_rows,
                   exitStatus, inflight, invocations, toolResult>>

\* input_rows = sum(1 for _ in open(input_file, ...)): the file holds some
\* number of lines, possibly none
CountInput ==
    /\ pc = "count_input"
    /\ opened' = Append(opened, input_file(press_num))
    /\ \E n \in 0..MaxRows : input_rows' = n
    /\ pc' = "count_output"
    /\ UNCHANGED engineVars
    /\ UNCHANGED dirsCreated
    /\ UNCHANGED <<cliExists, inputDirExists, inputExists, written,
                   press_num, success, output, output_rows,
                   printed, exitStatus, inflight, invocations, toolResult>>

\* output_rows = sum(1 for _ in open(output_file, ...))
CountOutput ==
    /\ pc = "count_output"
    /\ opened' = Append(opened, output_file(press_num))
    /\ \E n \in 0..MaxRows : output_rows' = n
    /\ pc' = "reduction"
    /\ UNCHANGED engineVars
    /\ UNCHANGED dirsCreated
    /\ UNCHANGED <<cliExists, inputDirExists, inputExists, written,
                   press_num, success, output, input_rows,
                   printed, exitStatus, inflight, invocations, toolResult>>

\* reduction = ((input_rows - output_rows) * 100) / input_rows, and the
\* "Rows" line
Report ==
    /\ pc = "reduction"
    /\ input_rows # 0
    /\ printed' = Append(printed, RowsMsg(press_num, input_rows, output_rows))
    /\ pc' = "end_iteration"
    /\ UNCHANGED engineVars
    /\ UNCHANGED dirsCreated
    /\ UNCHANGED <<cliExists, inputDirExists, inputExists, written,
                   opened, press_num, success, output, input_rows, output_rows,
                   exitStatus, inflight, invocations, toolResult>>

\* the division raises ZeroDivisionError when input_rows is 0; nothing
\* catches it, so the interpreter prints the traceback and exits with 1
ReportZeroDivision ==
    /\ pc = "reduction"
    /\ input_rows = 0
    /\ printed' = Append(printed, Msg("traceback", press_num))
    /\ exitStatus' = 1
    /\ pc' = "crashed"
    /\ UNCHANGED engineVars
    /\ UNCHANGED dirsCreated
    /\ UNCHANGED <<cliExists, inputDirExists, inputExists, written,
                   opened, press_num, success, output, input_rows, output_rows,
                   inflight, invocations, toolResult>>

\* print() closing the iteration
EndIteration ==
    /\ pc = "end_iteration"
    /\ printed' = Append(printed, Msg("blank", press_num))
    /\ pc' = "loop"
    /\ UNCHANGED engineVars
    /\ UNCHANGED dirsCreated
    /\ UNCHANGED <<cliExists, inputDirExists, inputExists, written,
                   opened, press_num, success, output, input_rows, output_rows,
                   exitStatus, inflight, invocations, toolResult>>

-----------------------------------------------------------------------------
(* The resampling engine behind "window --type resample --window 5T":     *)
(* the series is reduced to its timestamps, each output row to its window *)
(* start and the number of observations that fell into the window (the    *)
(* count of the running sum/count pair of the mean; 0 marks an empty      *)
(* window).                                                               *)

Timestamps == {60 * m : m \in 0..MaxMinute}

Min(S) == CHOOSE x \in S : \A y \in S : x <= y
Max(S) == CHOOSE x \in S : \A y \in S : x >= y

\* stable insertion of t into an ascending sequence: after every element <= t
RECURSIVE Insert(_, _)
Insert(s, t) ==
    IF s = <<>> THEN <<t>>
    ELSE IF s[Len(s)] <= t THEN Append(s, t)
    ELSE Append(Insert(SubSeq(s, 1, Len(s) - 1), t), s[Len(s)])

\* step 1: stable sort by timestamp
RECURSIVE SortByTime(_)
SortByTime(s) ==
    IF s = <<>> THEN <<>>
    ELSE Insert(SortByTime(SubSeq(s, 1, Len(s) - 1)), s[Len(s)])

\* the anchor is fixed once per run: the global epoch or the first observation
Anchor(sorted, rule) == IF rule = "epoch" THEN 0 ELSE sorted[1]

\* step 2: floor((timestamp - anchor) / window_duration)
WindowIndex(ts, anchor, duration) == (ts - anchor) \div duration

\* step 3: the observations of one window
Bucket(sorted, anchor, duration, w) ==
    {i \in 1..Len(sorted) : WindowIndex(sorted[i], anchor, duration) = w}

AggregatedRow(sorted, anchor, duration, w) ==
    [window_start |-> anchor + w * duration,
     count |-> Cardinality(Bucket(sorted, anchor, duration, w))]

\* "omit" policy for empty windows: rows only for populated windows
RECURSIVE PopulatedRows(_, _, _, _, _)
PopulatedRows(sorted, anchor, duration, w, last) ==
    IF w > last THEN <<>>
    ELSE (IF Bucket(sorted, anchor, duration, w) = {} THEN <<>>
          ELSE <<AggregatedRow(sorted, anchor, duration, w)>>)
         \o PopulatedRows(sorted, anchor, duration, w + 1, last)

resample_omit_empty(s, duration, rule) ==
    LET sorted == SortByTime(s)
        anchor == Anchor(sorted, rule)
    IN  PopulatedRows(sorted, anchor, duration,
                      WindowIndex(sorted[1], anchor, duration),
                      WindowIndex(sorted[Len(sorted)], anchor, duration))

\* steps 4 and 5: one row per window index of the full contiguous range from
\* the first to the last populated window, in ascending window order
resample(s, duration, rule) ==
    LET sorted == SortByTime(s)
        anchor == Anchor(sorted, rule)
        first  == WindowIndex(sorted[1], anchor, duration)
        last   == WindowIndex(sorted[Len(sorted)], anchor, duration)
    IN  [i \in 1..(last - first + 1) |->
            AggregatedRow(sorted, anchor, duration, first + i - 1)]

\* an observation arrives in the input table, in any order
Observe ==
    /\ phase = "input"
    /\ Len(series) < MaxObs
    /\ \E ts \in Timestamps : series' = Append(series, ts)
    /\ UNCHANGED <<anchorRule, aggregated, phase>>
    /\ UNCHANGED driverVars

\* one resample call over a non-empty series with the 5-minute window
Resample ==
    /\ phase = "input"
    /\ series # <<>>
    /\ aggregated' = resample(series, WindowSeconds, anchorRule)
    /\ phase' = "resampled"
    /\ UNCHANGED <<series, anchorRule>>
    /\ UNCHANGED driverVars

Init == DriverInit /\ EngineInit

Next ==
    \/ MainExit \/ MainStart
    \/ LoopNext \/ LoopExit
    \/ SkipMissing \/ CallTool \/ ToolExit \/ Return
    \/ BranchSuccess \/ BranchFailure
    \/ CountInput \/ CountOutput
    \/ Report \/ ReportZeroDivision
    \/ EndIteration

Spec == Init /\ [][Next]_vars

\* the engine alone, with the script at rest
EngineSpecInit ==
    /\ Init
    /\ cliExists /\ inputDirExists
    /\ \A k \in Presses : inputExists[k]

EngineNext == Observe \/ Resample

SpecResample == EngineSpecInit /\ [][EngineNext]_vars

-----------------------------------------------------------------------------
(* Properties *)

Printed(m) == m \in Range(printed)
HasRows(k) == \E i \in 1..Len(printed) : printed[i].kind = "rows" /\ printed[i].press = k
HasError(k) == \E i \in 1..Len(printed) : printed[i].kind = "error" /\ printed[i].press = k
Invoked(k) == Command(k) \in Range(invocations)
\* position of the first occurrence of m in the console output, 0 if none
PrintedAt(m) == IF Printed(m) THEN Min({i \in 1..Len(printed) : printed[i] = m}) ELSE 0
\* the press numbers of the "Processing Press k..." lines, in order
Considered == LET p == SelectSeq(printed, LAMBDA m : m.kind = "processing")
              IN  [i \in 1..Len(p) |-> p[i].press]
\* preprocess_press_data has ended, normally or by an uncaught exception
Ended == pc \in {"done", "crashed"}
\* C1: failures are per-dataset, never global: however the processing of a
\* file ends, every later file is still considered and the run reaches the
\* "Preprocessing Complete" banner.
C1_FailuresPerDataset ==
    Ended => /\ \A k \in Presses : Printed(Msg("processing", k))
             /\ Printed(Msg("complete", 0))

\* the request of an invocation is the fixed one, up to the two paths
FixedRequest(c, k) ==
    /\ Len(c) = 16
    /\ c[1] = "window"
    /\ c[2] = "-i" /\ c[3] = input_file(k)
    /\ c[4] = "-o" /\ c[5] = output_file(k)
    /\ SubSeq(c, 6, 16) = << "--type", "resample", "--method", "mean",
                             "--columns", "RMS[A]", "--time-column", "Time_s[s]",
                             "--window", "5T", "--header" >>

\* C2: the tool is invoked exactly once for each press file whose input
\* exists, never for a missing one, and always with the same fixed request
\* apart from the input and output paths.
C2_OncePerExistingFile ==
    /\ \A i \in 1..Len(invocations) : \E k \in Presses : FixedRequest(invocations[i], k)
    /\ \A k \in Presses : ~inputExists[k] => Count(invocations, Command(k)) = 0
    /\ \A k \in Presses : Count(invocations, Command(k)) <= 1
    /\ Ended => \A k \in Presses : inputExists[k] => Count(invocations, Command(k)) = 1

\* C3: after a successful tool call, for all line counts input_rows >= 0 and
\* output_rows >= 0, the row counts and the reduction
\* (input_rows - output_rows) * 100 / input_rows are reported and the loop
\* continues with the next file.
C3_ReportAfterSuccess ==
    \A k \in Presses :
        (/\ output_file(k) \in Range(opened)
         /\ (k < press_num \/ pc # "reduction"))
        => /\ \E in \in 0..MaxRows, out \in 0..MaxRows : Printed(RowsMsg(k, in, out))
           /\ k = press_num => Printed(RowsMsg(k, input_rows, output_rows))
           /\ pc # "crashed"

\* the tool process of press k has ended without writing its output
ToolFailed(k) ==
    /\ Invoked(k)
    /\ Command(k) \notin inflight
    /\ output_file(k) \notin Range(written)
\* the kinds of the console lines about press k
KindsFor(k) == {printed[i].kind : i \in {j \in 1..Len(printed) : printed[j].press = k}}

\* C4: when the tool call for a file fails, the output file is never opened
\* or counted, no row-count line is printed for it, and only the failure
\* message with the tool's error text is printed.
C4_FailedCallNotConsumed ==
    /\ \A k \in Presses : ToolFailed(k) =>
          /\ output_file(k) \notin Range(opened)
          /\ input_file(k) \notin Range(opened)
          /\ KindsFor(k) \subseteq {"processing", "failed", "error", "blank"}
          /\ (k < press_num \/ pc \in {"end_iteration", "loop", "done", "crashed"}) =>
                /\ Printed(Msg("failed", k))
                /\ \E t \in StderrTexts : Printed(ErrorMsg(k, t))
    /\ (pc \in {"branch", "end_iteration"} /\ ToolFailed(press_num)) =>
          /\ ~success
          /\ output \in StderrTexts
          /\ pc = "end_iteration" => Printed(ErrorMsg(press_num, output))

\* a failed call has been reported after an earlier file was counted
C4_Witness ==
    /\ pc = "end_iteration"
    /\ ToolFailed(press_num)
    /\ Printed(ErrorMsg(press_num, "ColumnNotFoundError"))
    /\ opened # <<>>

C6_ExitStatusChecked ==
    [][pc = "returning" =>
          /\ pc' = "branch"
          /\ success' <=> (toolResult.rc = 0)
          /\ toolResult.rc = 0 => output' = toolResult.stdout
          /\ toolResult.rc # 0 => output' = toolResult.stderr]_vars

\* a non-zero exit has been returned as (False, stderr)
C6_Witness ==
    /\ pc = "branch"
    /\ ~success
    /\ output = "ColumnNotFoundError"
    /\ output_file(press_num) \notin Range(written)

\* C7: preprocess_press_data always terminates: whenever it can take no
\* further step it has considered the four press files once each, in the order
\* 1, 2, 3, 4, and the completion banner is the last thing printed.
C7_EndsWithBanner ==
    (pc \notin {"main", "exited"} /\ ~ENABLED Next) =>
        /\ pc = "done"
        /\ Considered = <<1, 2, 3, 4>>
        /\ printed[Len(printed)] = Msg("complete", 0)

\* C8: distinct presses have distinct input paths and distinct output paths,
\* no output path is an input path, and so the tool never writes a file
\* twice and never writes an input file.
C8_OwnInputOwnOutput ==
    /\ \A i, j \in 1..Len(invocations) :
          i # j => /\ invocations[i][3] # invocations[j][3]
                   /\ invocations[i][5] # invocations[j][5]
    /\ \A i, j \in 1..Len(invocations) : invocations[i][5] # invocations[j][3]
    /\ \A i, j \in 1..Len(written) : i # j => written[i] # written[j]
    /\ \A i \in 1..Len(written), k \in Presses : written[i] # input_file(k)

\* all four invocations have been made and at least two outputs written
C8_Witness ==
    /\ Len(invocations) = NumPresses
    /\ Len(written) >= 2

\* C9: without the tool executable, or without the input directory, the
\* script exits with status 1 before preprocess_press_data: no mkdir, no tool
\* invocation, no file read; preprocess_press_data starts only when both
\* exist.
C9_StartupGuard ==
    /\ ~(cliExists /\ inputDirExists) =>
          /\ pc \in {"main", "exited"}
          /\ dirsCreated = {}
          /\ invocations = <<>>
          /\ inflight = {}
          /\ opened = <<>>
    /\ pc = "exited" => exitStatus = 1 /\ ~(cliExists /\ inputDirExists)
    /\ pc \notin {"main", "exited"} => cliExists /\ inputDirExists /\ OUTPUT_DIR \in dirsCreated

\* the tool exists, the input directory does not, and the script has exited
C9_Witness ==
    /\ pc = "exited"
    /\ cliExists
    /\ ~inputDirExists
    /\ exitStatus = 1

====
